---- MODULE Spec2Model ----
(***************************************************************************)
(* Model of the live trading bot core, hftbacktest/src/live/bot.rs:        *)
(* LiveBotBuilder::build, LiveBot::process_event, LiveBot::elapse_,        *)
(* LiveBot::submit_order and the Bot facade (cancel, wait_order_response,  *)
(* wait_next_feed, elapse, clear_inactive_orders, clear_last_trades).      *)
(*                                                                         *)
(* Asset numbers are 1-based here (Rust index i is i+1); prices, tick      *)
(* sizes and quantities are integers in a fixed unit.                      *)
(***************************************************************************)
EXTENDS Integers, Sequences, FiniteSets, TLC

(***************************************************************************)
(* Bounds of the model.                                                    *)
(***************************************************************************)
MaxTs == 2
MaxSent == 2
MaxTrades == 2

OrderIds == {1, 2}
ExchTs == 1..MaxTs
\* Readings of Utc::now(); nothing the bot decides depends on them.
WallClock == {1}

(***************************************************************************)
(* types::Status, as far as the spec names it.                             *)
(***************************************************************************)
Statuses == {"New", "PartiallyFilled", "Filled", "Canceled", "Expired", "Rejected"}

Sides == {"Buy", "Sell"}

(***************************************************************************)
(* Instruments handed to the builder.                                      *)
(***************************************************************************)
Inst(c, s, cap) == [connector_name |-> c, symbol |-> s, tick_size |-> 2, capacity |-> cap]

InstrumentLists ==
    { << Inst("x", "BTC", 2) >>,
      << Inst("x", "BTC", 2), Inst("y", "ETH", 0) >>,
      << Inst("x", "BTC", 0), Inst("x", "ETH", 2) >>,
      << Inst("x", "BTC", 2), Inst("y", "BTC", 2) >>,
      << Inst("x", "BTC", 2), Inst("x", "BTC", 2) >>,
      << Inst("y", "ETH", 1) >> }

Symbols == {"BTC", "ETH", "XRP"}
Connectors == {"x", "y"}

VARIABLES
    pc,                  \* "builder" | "idle" | "elapse" | "failed"
    instruments,         \* LiveBot.instruments (static part)
    error_handler,       \* an error handler is registered
    order_hook,          \* an order receive hook is registered
    symbol_to_inst_no,   \* LiveBot.symbol_to_inst_no
    pubsub,              \* LiveBot.pubsub: endpoint (by connector name) per asset
    created,             \* endpoints created by IceoryxPubSubBot::new, in order
    sent,                \* requests published, in order: [ep, req]
    orders,              \* Instrument.orders per asset
    position,            \* Instrument.state.position per asset
    depth,               \* Instrument.depth per asset
    last_trades,         \* Instrument.last_trades per asset
    last_feed_latency,   \* Instrument.last_feed_latency per asset
    last_order_latency,  \* Instrument.last_order_latency per asset
    in_batch,            \* elapse_ local
    receive_wait_resp,   \* elapse_ local
    wait_order_response, \* elapse_ argument
    wait_next_feed,      \* elapse_ const generic WAIT_NEXT_FEED
    expired,             \* instant.elapsed() > duration
    recv,                \* the value of recv_timeout on which the last elapse_ returned
    polls,               \* parity of the loop iterations the running elapse_ has completed
    call,                \* the operation the strategy called last
    open,                \* transport: endpoints with a batch delivered but not closed
    result               \* outcome of the last facade/builder call

slots == << orders, position, depth, last_trades, last_feed_latency, last_order_latency >>
bot == << instruments, error_handler, order_hook, symbol_to_inst_no, pubsub, created >>
locals == << in_batch, receive_wait_resp, wait_order_response, wait_next_feed, expired, recv, polls >>
vars == << pc, bot, sent, slots, locals, call, open, result >>

WaitNone == [kind |-> "None"]
WaitAny == [kind |-> "Any"]
Specified(a, id) == [kind |-> "Specified", asset_no |-> a, order_id |-> id]

\* What recv_timeout returns.
Normal(ev) == [kind |-> "Normal", ev |-> ev]
Batch(ev) == [kind |-> "Batch", ev |-> ev]
EndOfBatch == [kind |-> "EndOfBatch"]
Timeout == [kind |-> "Timeout"]
Interrupted == [kind |-> "Interrupted"]
TransportError == [kind |-> "Error"]
NotReceived == [kind |-> "none"]

NoLatency == << >>
EmptyDepth == [bid |-> << >>, ask |-> << >>]

Assets == 1..Len(instruments)

\* The state after LiveBot::builder() and the add / error_handler /
\* order_recv_hook calls: a builder holding one of the given instrument lists.
Builder(lists, handlers, hooks) ==
    /\ pc = "builder"
    /\ instruments \in lists
    /\ error_handler \in handlers
    /\ order_hook \in hooks
    /\ symbol_to_inst_no = << >>
    /\ pubsub = << >>
    /\ created = << >>
    /\ sent = << >>
    /\ orders = [a \in 1..Len(instruments) |-> << >>]
    /\ position = [a \in 1..Len(instruments) |-> 0]
    /\ depth = [a \in 1..Len(instruments) |-> EmptyDepth]
    /\ last_trades = [a \in 1..Len(instruments) |-> << >>]
    /\ last_feed_latency = [a \in 1..Len(instruments) |-> NoLatency]
    /\ last_order_latency = [a \in 1..Len(instruments) |-> NoLatency]
    /\ in_batch = FALSE
    /\ receive_wait_resp = FALSE
    /\ wait_order_response = WaitNone
    /\ wait_next_feed = FALSE
    /\ expired = FALSE
    /\ recv = NotReceived
    /\ polls = 0
    /\ call = "builder"
    /\ open = {}
    /\ result = "none"

(***************************************************************************)
(* LiveBotBuilder::build                                                   *)
(***************************************************************************)
DupKey(inst) == inst.connector_name \o "/" \o inst.symbol

\* Index of the first instrument whose key is already in `dup`, or 0.
FirstDup(insts) ==
    LET dups == {i \in 1..Len(insts) : \E j \in 1..(i - 1) : DupKey(insts[j]) = DupKey(insts[i])}
    IN  IF dups = {} THEN 0 ELSE CHOOSE i \in dups : \A j \in dups : i <= j

\* An endpoint created for every instrument, shared or not.
CreatedEach(insts, k) == [i \in 1..k |-> insts[i].connector_name]

\* Endpoints created while the first loop handles instruments 1..k.
RECURSIVE CreatedUpTo(_, _)
CreatedUpTo(insts, k) ==
    IF k = 0 THEN << >>
    ELSE LET prev == CreatedUpTo(insts, k - 1)
             c == insts[k].connector_name
         IN  IF \E i \in 1..Len(prev) : prev[i] = c THEN prev ELSE Append(prev, c)

\* asset_name_to_no: collect() keeps the last asset number of each symbol.
AssetNameToNo(insts) ==
    LET syms == {insts[i].symbol : i \in 1..Len(insts)}
    IN  [s \in syms |-> CHOOSE i \in 1..Len(insts) :
                            /\ insts[i].symbol = s
                            /\ \A j \in 1..Len(insts) : insts[j].symbol = s => j <= i]

AddInstrument(inst) == [type |-> "AddInstrument", symbol |-> inst.symbol, tick_size |-> inst.tick_size]

\* Requests published while the second loop handles instruments 1..k.
RECURSIVE PreparedUpTo(_, _, _)
PreparedUpTo(insts, ps, k) ==
    IF k = 0 THEN << >>
    ELSE LET asset_no == AssetNameToNo(insts)[insts[k].symbol]
         IN  Append(PreparedUpTo(insts, ps, k - 1),
                    [ep |-> ps[asset_no], req |-> AddInstrument(insts[k])])

\* fail = <<"none">>, <<"new", k>> (IceoryxPubSubBot::new fails at instrument k),
\* <<"send", k>> (the k-th AddInstrument publish fails) or <<"list">>.
BuildFailures ==
    {<<"none">>, <<"list">>} \cup {<<"new", k>> : k \in 1..2} \cup {<<"send", k>> : k \in 1..2}

\* The connector of instrument k has no endpoint yet when the first loop reaches k.
Vacant(insts, k) == \A j \in 1..(k - 1) : insts[j].connector_name # insts[k].connector_name

Build(fail) ==
    /\ pc = "builder"
    /\ LET n == Len(instruments)
           d == FirstDup(instruments)
           ps == [a \in 1..n |-> instruments[a].connector_name]
       IN
       IF fail[1] = "new"
       THEN \* IceoryxPubSubBot::new(..)? fails on a vacant connector
            /\ fail[2] <= n
            /\ d = 0 \/ fail[2] < d
            /\ Vacant(instruments, fail[2])
            /\ pc' = "failed"
            /\ result' = "BuildError"
            /\ created' = CreatedUpTo(instruments, fail[2] - 1)
            /\ UNCHANGED << symbol_to_inst_no, pubsub, sent >>
       ELSE IF d # 0
       THEN \* Err(BuildError::Duplicate) at instrument d
            /\ fail = <<"none">>
            /\ pc' = "failed"
            /\ result' = "Duplicate"
            /\ created' = CreatedUpTo(instruments, d - 1)
            /\ UNCHANGED << symbol_to_inst_no, pubsub, sent >>
       ELSE IF fail[1] = "send"
       THEN /\ fail[2] <= n
            /\ pc' = "failed"
            /\ result' = "BuildError"
            /\ created' = CreatedUpTo(instruments, n)
            /\ sent' = PreparedUpTo(instruments, ps, fail[2] - 1)
            /\ UNCHANGED << symbol_to_inst_no, pubsub >>
       ELSE /\ created' = CreatedUpTo(instruments, n)
            /\ sent' = PreparedUpTo(instruments, ps, n)
            /\ IF fail[1] = "list"
               THEN /\ pc' = "failed"
                    /\ result' = "BuildError"
                    /\ UNCHANGED << symbol_to_inst_no, pubsub >>
               ELSE /\ pc' = "idle"
                    /\ result' = "Ok"
                    /\ symbol_to_inst_no' = AssetNameToNo(instruments)
                    /\ pubsub' = ps
    /\ call' = "build"
    /\ UNCHANGED << instruments, error_handler, order_hook, slots, locals, open >>

(***************************************************************************)
(* Orders.                                                                 *)
(***************************************************************************)
\* The quotient truncated instead of rounded.
Truncate(px, tick_size) == px \div tick_size

\* f64::round of px / tick_size for px >= 0, tick_size > 0: half away from zero.
Round(px, tick_size) == (2 * px + tick_size) \div (2 * tick_size)

\* The Order built by submit_order.
NewOrder(order_id, price, qty, side, tick_size, now) ==
    [order_id |-> order_id,
     price_tick |-> Round(price, tick_size),
     qty |-> qty,
     leaves_qty |-> qty,
     tick_size |-> tick_size,
     side |-> side,
     status |-> "New",
     local_timestamp |-> now,
     req |-> "New",
     exec_price_tick |-> 0,
     exch_timestamp |-> 0,
     exec_qty |-> 0,
     maker |-> FALSE]

\* Order::update: copies the mutable fields of the update into the entry.
OrderUpdate(ex_order, order) ==
    [ex_order EXCEPT !.status = order.status,
                     !.exch_timestamp = order.exch_timestamp,
                     !.local_timestamp = order.local_timestamp,
                     !.leaves_qty = order.leaves_qty,
                     !.exec_qty = order.exec_qty,
                     !.exec_price_tick = order.exec_price_tick,
                     !.maker = order.maker]

\* Order::cancellable
Cancellable(order) == order.status \in {"New", "PartiallyFilled"}

\* Order::active
Active(order) == order.status \in {"New", "PartiallyFilled"}

\* The statuses process_event treats as final.
FinalStatus(status) == status = "Canceled" \/ status = "Expired" \/ status = "Filled"

\* Reconcile adding the reported executed quantity to the entry's.
ReconcileAccumulate(ex_order, order) ==
    IF order.exch_timestamp >= ex_order.exch_timestamp /\ ~FinalStatus(ex_order.status)
    THEN [OrderUpdate(ex_order, order) EXCEPT !.exec_qty = ex_order.exec_qty + order.exec_qty]
    ELSE ex_order

\* Reconcile without the timestamp comparison.
ReconcileNoStaleCheck(ex_order, order) ==
    IF FinalStatus(ex_order.status) THEN ex_order ELSE OrderUpdate(ex_order, order)

\* The Occupied branch after the hook: the drop decision and the update.
Reconcile(ex_order, order) ==
    IF order.exch_timestamp >= ex_order.exch_timestamp
    THEN IF FinalStatus(ex_order.status)
         THEN ex_order
         ELSE OrderUpdate(ex_order, order)
    ELSE ex_order

\* The Vacant branch: the update becomes the entry.
InsertVacant(order) == order

\* instrument.orders.entry(order.order_id): the order map of one slot after an
\* inbound order; hook_err says the hook, if invoked, returns an error.
ApplyOrder(m, order, hook_err) ==
    IF order.order_id \in DOMAIN m
    THEN IF order_hook /\ hook_err
         THEN m
         ELSE [m EXCEPT ![order.order_id] = Reconcile(m[order.order_id], order)]
    ELSE (order.order_id :> InsertVacant(order)) @@ m

\* The match ignoring the asset the order belongs to.
ReceivedOrderRespAnyAsset(mode, asset_no, order) ==
    \/ mode.kind = "Any"
    \/ /\ mode.kind = "Specified"
       /\ mode.order_id = order.order_id

\* The match taking every order response, whatever the wait mode.
ReceivedOrderRespAlways(mode, asset_no, order) == TRUE

\* The match on wait_order_response in the Order arm.
ReceivedOrderResp(mode, asset_no, order) ==
    \/ mode.kind = "Any"
    \/ /\ mode.kind = "Specified"
       /\ mode.order_id = order.order_id
       /\ mode.asset_no = asset_no

(***************************************************************************)
(* Market depth: update_bid_depth / update_ask_depth.                      *)
(***************************************************************************)
UpdateBidDepth(d, px, qty) == [d EXCEPT !.bid = (px :> qty) @@ d.bid]
UpdateAskDepth(d, px, qty) == [d EXCEPT !.ask = (px :> qty) @@ d.ask]

(***************************************************************************)
(* LiveBot::process_event.  The value is the slots after the event and     *)
(* res: "true" / "false" for Ok(true) / Ok(false), "err" for Err.          *)
(***************************************************************************)
Outcome(o, p, d, t, fl, ol, res) ==
    [orders |-> o, position |-> p, depth |-> d, last_trades |-> t,
     last_feed_latency |-> fl, last_order_latency |-> ol, res |-> res]

Untouched(res) ==
    Outcome(orders, position, depth, last_trades, last_feed_latency, last_order_latency, res)

ProcessFeed(symbol, event) ==
    IF symbol \notin DOMAIN symbol_to_inst_no
    THEN Untouched("false")
    ELSE LET asset_no == symbol_to_inst_no[symbol]
             d == IF event.ev = "bid_depth"
                  THEN UpdateBidDepth(depth[asset_no], event.px, event.qty)
                  ELSE IF event.ev = "ask_depth"
                  THEN UpdateAskDepth(depth[asset_no], event.px, event.qty)
                  ELSE depth[asset_no]
             t == IF /\ event.ev \in {"buy_trade", "sell_trade"}
                     /\ instruments[asset_no].capacity > 0
                  THEN Append(last_trades[asset_no], event)
                  ELSE last_trades[asset_no]
         IN  Outcome(orders, position,
                     [depth EXCEPT ![asset_no] = d],
                     [last_trades EXCEPT ![asset_no] = t],
                     [last_feed_latency EXCEPT ![asset_no] = << event.exch_ts, event.local_ts >>],
                     last_order_latency, "false")

\* The Order arm reporting an order of an unknown symbol to a wait for any order.
ProcessOrderAnyUnknown(symbol, order, mode, hook_err, now) ==
    IF symbol \notin DOMAIN symbol_to_inst_no
    THEN Untouched(IF mode.kind = "Any" THEN "true" ELSE "false")
    ELSE LET asset_no == symbol_to_inst_no[symbol]
             received_order_resp == ReceivedOrderResp(mode, asset_no, order)
             ol == [last_order_latency EXCEPT
                       ![asset_no] = << order.local_timestamp, order.exch_timestamp, now >>]
             hook_fails == order.order_id \in DOMAIN orders[asset_no] /\ order_hook /\ hook_err
         IN  Outcome([orders EXCEPT ![asset_no] = ApplyOrder(orders[asset_no], order, hook_err)],
                     position, depth, last_trades, last_feed_latency, ol,
                     IF hook_fails THEN "err"
                     ELSE IF received_order_resp THEN "true" ELSE "false")

\* The Order arm calling the hook only for an update that is going to be applied.
ProcessOrderHookAfterDrop(symbol, order, mode, hook_err, now) ==
    IF symbol \notin DOMAIN symbol_to_inst_no
    THEN Untouched("false")
    ELSE LET asset_no == symbol_to_inst_no[symbol]
             received_order_resp == ReceivedOrderResp(mode, asset_no, order)
             ol == [last_order_latency EXCEPT
                       ![asset_no] = << order.local_timestamp, order.exch_timestamp, now >>]
             applied == /\ order.order_id \in DOMAIN orders[asset_no]
                        /\ order.exch_timestamp >= orders[asset_no][order.order_id].exch_timestamp
                        /\ ~FinalStatus(orders[asset_no][order.order_id].status)
             hook_fails == applied /\ order_hook /\ hook_err
         IN  Outcome([orders EXCEPT ![asset_no] = ApplyOrder(orders[asset_no], order, hook_err)],
                     position, depth, last_trades, last_feed_latency, ol,
                     IF hook_fails THEN "err"
                     ELSE IF received_order_resp THEN "true" ELSE "false")

\* The Order arm reporting a response only for an update it applies or inserts.
ProcessOrderRespIfApplied(symbol, order, mode, hook_err, now) ==
    IF symbol \notin DOMAIN symbol_to_inst_no
    THEN Untouched("false")
    ELSE LET asset_no == symbol_to_inst_no[symbol]
             dropped == /\ order.order_id \in DOMAIN orders[asset_no]
                        /\ \/ order.exch_timestamp < orders[asset_no][order.order_id].exch_timestamp
                           \/ FinalStatus(orders[asset_no][order.order_id].status)
             received_order_resp == ReceivedOrderResp(mode, asset_no, order) /\ ~dropped
             ol == [last_order_latency EXCEPT
                       ![asset_no] = << order.local_timestamp, order.exch_timestamp, now >>]
             hook_fails == order.order_id \in DOMAIN orders[asset_no] /\ order_hook /\ hook_err
         IN  Outcome([orders EXCEPT ![asset_no] = ApplyOrder(orders[asset_no], order, hook_err)],
                     position, depth, last_trades, last_feed_latency, ol,
                     IF hook_fails THEN "err"
                     ELSE IF received_order_resp THEN "true" ELSE "false")

ProcessOrder(symbol, order, mode, hook_err, now) ==
    IF symbol \notin DOMAIN symbol_to_inst_no
    THEN Untouched("false")
    ELSE LET asset_no == symbol_to_inst_no[symbol]
             received_order_resp == ReceivedOrderResp(mode, asset_no, order)
             ol == [last_order_latency EXCEPT
                       ![asset_no] = << order.local_timestamp, order.exch_timestamp, now >>]
             hook_fails == order.order_id \in DOMAIN orders[asset_no] /\ order_hook /\ hook_err
         IN  Outcome([orders EXCEPT ![asset_no] = ApplyOrder(orders[asset_no], order, hook_err)],
                     position, depth, last_trades, last_feed_latency, ol,
                     IF hook_fails THEN "err"
                     ELSE IF received_order_resp THEN "true" ELSE "false")

ProcessPosition(symbol, qty) ==
    IF symbol \notin DOMAIN symbol_to_inst_no
    THEN Untouched("false")
    ELSE LET asset_no == symbol_to_inst_no[symbol]
         IN  Outcome(orders, [position EXCEPT ![asset_no] = qty], depth, last_trades,
                     last_feed_latency, last_order_latency, "false")

ProcessError(handler_err) ==
    Untouched(IF error_handler /\ handler_err THEN "err" ELSE "false")

\* user_err: a user hook or handler invoked for this event returns an error.
ProcessEvent(ev, mode, user_err, now) ==
    IF ev.type = "Feed" THEN ProcessFeed(ev.symbol, ev.event)
    ELSE IF ev.type = "Order" THEN ProcessOrder(ev.symbol, ev.order, mode, user_err, now)
    ELSE IF ev.type = "Position" THEN ProcessPosition(ev.symbol, ev.qty)
    ELSE ProcessError(user_err)

(***************************************************************************)
(* What the transport can deliver.                                         *)
(***************************************************************************)
FeedKinds == {"bid_depth", "ask_depth", "buy_trade", "sell_trade", "other"}

FeedEvent(kind) == [ev |-> kind, px |-> 10, qty |-> 1, exch_ts |-> 1, local_ts |-> 1]

\* An order as a connector reports it.
InboundOrder(order_id, status, ts) ==
    [order_id |-> order_id,
     price_tick |-> 2,
     qty |-> 2,
     leaves_qty |-> IF status = "Filled" THEN 0 ELSE IF status = "PartiallyFilled" THEN 1 ELSE 2,
     tick_size |-> 2,
     side |-> "Buy",
     status |-> status,
     local_timestamp |-> 2,
     req |-> "None",
     exec_price_tick |-> IF status \in {"Filled", "PartiallyFilled"} THEN 2 ELSE 0,
     exch_timestamp |-> ts,
     exec_qty |-> IF status = "Filled" THEN 2 ELSE IF status = "PartiallyFilled" THEN 1 ELSE 0,
     maker |-> status \in {"Filled", "PartiallyFilled"}]

InboundOrders == {InboundOrder(id, st, ts) : id \in OrderIds, st \in Statuses, ts \in ExchTs}

FeedEvents == {[type |-> "Feed", symbol |-> s, event |-> FeedEvent(k)] : s \in Symbols, k \in FeedKinds}
OrderEvents == {[type |-> "Order", symbol |-> s, order |-> o] : s \in Symbols, o \in InboundOrders}
PositionEvents == {[type |-> "Position", symbol |-> s, qty |-> 1] : s \in Symbols}
ErrorEvents == {[type |-> "Error", error |-> "ConnectionLost"]}

LiveEvents == FeedEvents \cup OrderEvents \cup PositionEvents \cup ErrorEvents

\* The endpoints the multiplexer polls.
Endpoints == {pubsub[a] : a \in DOMAIN pubsub}

\* Keeps last_trades within the model's bound.
WithinTrades(ev) ==
    ev.type = "Feed" /\ ev.event.ev \in {"buy_trade", "sell_trade"} /\ ev.symbol \in DOMAIN symbol_to_inst_no
        => Len(last_trades[symbol_to_inst_no[ev.symbol]]) < MaxTrades

(***************************************************************************)
(* LiveBot::elapse_                                                        *)
(***************************************************************************)
\* elapse_ returns res on the value `kind` of recv_timeout.
Return(kind, res) ==
    /\ pc' = "idle"
    /\ result' = res
    /\ recv' = kind
    /\ expired' = FALSE
    /\ polls' = 0

\* The end of a loop iteration without the deadline check.
LoopTailNoDeadline(kind, batch) ==
    /\ pc' = "elapse"
    /\ polls' = 1 - polls
    /\ UNCHANGED << result, recv, expired >>

\* The end of a loop iteration: the deadline check outside a batch.
LoopTail(kind, batch) ==
    IF ~batch /\ expired
    THEN Return(kind, "Ok(true)")
    ELSE /\ pc' = "elapse"
         /\ polls' = 1 - polls
         /\ UNCHANGED << result, recv, expired >>

StartElapse(feed_flag, mode) ==
    /\ pc' = "elapse"
    /\ result' = "pending"
    /\ in_batch' = FALSE
    /\ receive_wait_resp' = FALSE
    /\ wait_order_response' = mode
    /\ wait_next_feed' = feed_flag
    /\ expired' = FALSE
    /\ recv' = NotReceived
    /\ polls' = 0

ApplyOutcome(r) ==
    /\ orders' = r.orders
    /\ position' = r.position
    /\ depth' = r.depth
    /\ last_trades' = r.last_trades
    /\ last_feed_latency' = r.last_feed_latency
    /\ last_order_latency' = r.last_order_latency

\* The clock passes the deadline of the running call.
Tick ==
    /\ pc = "elapse"
    /\ ~expired
    /\ expired' = TRUE
    /\ UNCHANGED << pc, bot, sent, slots, in_batch, receive_wait_resp, wait_order_response,
                    wait_next_feed, recv, polls, call, open, result >>

RecvNormal(ep, ev, user_err, now) ==
    /\ pc = "elapse"
    /\ ep \in Endpoints
    /\ ep \notin open
    /\ WithinTrades(ev)
    /\ LET r == ProcessEvent(ev, wait_order_response, user_err, now)
       IN  /\ ApplyOutcome(r)
           /\ IF r.res = "err"
              THEN Return(Normal(ev), "Err(Custom)") /\ UNCHANGED receive_wait_resp
              ELSE IF r.res = "true"
              THEN /\ receive_wait_resp' = TRUE
                   /\ IF ~in_batch
                      THEN Return(Normal(ev), "Ok(true)")
                      ELSE LoopTail(Normal(ev), in_batch)
              ELSE LoopTail(Normal(ev), in_batch) /\ UNCHANGED receive_wait_resp
    /\ UNCHANGED << bot, sent, in_batch, wait_order_response, wait_next_feed, call, open >>

RecvBatch(ep, ev, user_err, now) ==
    /\ pc = "elapse"
    /\ ep \in Endpoints
    /\ WithinTrades(ev)
    /\ LET r == ProcessEvent(ev, wait_order_response, user_err, now)
       IN  /\ ApplyOutcome(r)
           /\ in_batch' = TRUE
           /\ open' = open \cup {ep}
           /\ IF r.res = "err"
              THEN Return(Batch(ev), "Err(Custom)") /\ UNCHANGED receive_wait_resp
              ELSE /\ receive_wait_resp' = (receive_wait_resp \/ r.res = "true")
                   /\ LoopTail(Batch(ev), TRUE)
    /\ UNCHANGED << bot, sent, wait_order_response, wait_next_feed, call >>

RecvEndOfBatch(ep) ==
    /\ pc = "elapse"
    /\ ep \in open
    /\ in_batch' = FALSE
    /\ open' = open \ {ep}
    /\ IF receive_wait_resp
       THEN Return(EndOfBatch, "Ok(true)")
       ELSE LoopTail(EndOfBatch, FALSE)
    /\ UNCHANGED << bot, sent, slots, receive_wait_resp, wait_order_response, wait_next_feed,
                    call >>

RecvTimeout ==
    /\ pc = "elapse"
    /\ Return(Timeout, "Ok(true)")
    /\ UNCHANGED << bot, sent, slots, in_batch, receive_wait_resp, wait_order_response,
                    wait_next_feed, call, open >>

RecvInterrupted ==
    /\ pc = "elapse"
    /\ Return(Interrupted, "Ok(false)")
    /\ UNCHANGED << bot, sent, slots, in_batch, receive_wait_resp, wait_order_response,
                    wait_next_feed, call, open >>

RecvError ==
    /\ pc = "elapse"
    /\ Return(TransportError, "Err(Custom)")
    /\ UNCHANGED << bot, sent, slots, in_batch, receive_wait_resp, wait_order_response,
                    wait_next_feed, call, open >>

(***************************************************************************)
(* The strategy API.                                                       *)
(***************************************************************************)
\* PubSubList::send(asset_no, request)
Publish(asset_no, req) == Append(sent, [ep |-> pubsub[asset_no], req |-> req])

OrderRequest(symbol, order) == [type |-> "Order", symbol |-> symbol, order |-> order]

\* Keeps the request log within the model's bound.
WithinSent == Len(sent) < Len(instruments) + MaxSent

\* submit_order taking the inserted order back out when the publish fails.
SubmitOrderRollback(asset_no, order_id, price, qty, side, wait, pub_ok, now) ==
    /\ pc = "idle"
    /\ call' = "submit_order"
    /\ pub_ok => WithinSent
    /\ IF asset_no \notin Assets
       THEN /\ result' = "Err(InstrumentNotFound)"
            /\ UNCHANGED << pc, sent, orders, locals >>
       ELSE IF order_id \in DOMAIN orders[asset_no]
       THEN /\ result' = "Err(OrderIdExist)"
            /\ UNCHANGED << pc, sent, orders, locals >>
       ELSE LET order == NewOrder(order_id, price, qty, side, instruments[asset_no].tick_size, now)
            IN  IF ~pub_ok
                THEN /\ result' = "Err(Custom)"
                     /\ UNCHANGED << pc, sent, orders, locals >>
                ELSE /\ orders' = [orders EXCEPT ![asset_no] = (order_id :> order) @@ @]
                     /\ sent' = Publish(asset_no, OrderRequest(instruments[asset_no].symbol, order))
                     /\ IF wait
                        THEN StartElapse(FALSE, Specified(asset_no, order_id))
                        ELSE /\ result' = "Ok(true)"
                             /\ UNCHANGED << pc, locals >>
    /\ UNCHANGED << bot, position, depth, last_trades, last_feed_latency, last_order_latency,
                    open >>

SubmitOrder(asset_no, order_id, price, qty, side, wait, pub_ok, now) ==
    /\ pc = "idle"
    /\ call' = "submit_order"
    /\ pub_ok => WithinSent
    /\ IF asset_no \notin Assets
       THEN /\ result' = "Err(InstrumentNotFound)"
            /\ UNCHANGED << pc, sent, orders, locals >>
       ELSE IF order_id \in DOMAIN orders[asset_no]
       THEN /\ result' = "Err(OrderIdExist)"
            /\ UNCHANGED << pc, sent, orders, locals >>
       ELSE LET order == NewOrder(order_id, price, qty, side, instruments[asset_no].tick_size, now)
            IN  /\ orders' = [orders EXCEPT ![asset_no] = (order_id :> order) @@ @]
                /\ IF ~pub_ok
                   THEN /\ result' = "Err(Custom)"
                        /\ UNCHANGED << pc, sent, locals >>
                   ELSE /\ sent' = Publish(asset_no, OrderRequest(instruments[asset_no].symbol, order))
                        /\ IF wait
                           THEN StartElapse(FALSE, Specified(asset_no, order_id))
                           ELSE /\ result' = "Ok(true)"
                                /\ UNCHANGED << pc, locals >>
    /\ UNCHANGED << bot, position, depth, last_trades, last_feed_latency, last_order_latency,
                    open >>

\* cancel without the cancellable() test.
CancelUnchecked(asset_no, order_id, wait, pub_ok, now) ==
    /\ pc = "idle"
    /\ call' = "cancel"
    /\ pub_ok => WithinSent
    /\ IF asset_no \notin Assets
       THEN /\ result' = "Err(InstrumentNotFound)"
            /\ UNCHANGED << pc, sent, orders, locals >>
       ELSE IF order_id \notin DOMAIN orders[asset_no]
       THEN /\ result' = "Err(OrderNotFound)"
            /\ UNCHANGED << pc, sent, orders, locals >>
       ELSE LET order == [orders[asset_no][order_id] EXCEPT !.req = "Canceled",
                                                            !.local_timestamp = now]
            IN  /\ orders' = [orders EXCEPT ![asset_no][order_id] = order]
                /\ IF ~pub_ok
                   THEN /\ result' = "Err(Custom)"
                        /\ UNCHANGED << pc, sent, locals >>
                   ELSE /\ sent' = Publish(asset_no, OrderRequest(instruments[asset_no].symbol, order))
                        /\ IF wait
                           THEN StartElapse(FALSE, Specified(asset_no, order_id))
                           ELSE /\ result' = "Ok(true)"
                                /\ UNCHANGED << pc, locals >>
    /\ UNCHANGED << bot, position, depth, last_trades, last_feed_latency, last_order_latency,
                    open >>

\* cancel marking the entry Canceled without waiting for the exchange.
CancelEager(asset_no, order_id, wait, pub_ok, now) ==
    /\ pc = "idle"
    /\ call' = "cancel"
    /\ pub_ok => WithinSent
    /\ IF asset_no \notin Assets
       THEN /\ result' = "Err(InstrumentNotFound)"
            /\ UNCHANGED << pc, sent, orders, locals >>
       ELSE IF order_id \notin DOMAIN orders[asset_no]
       THEN /\ result' = "Err(OrderNotFound)"
            /\ UNCHANGED << pc, sent, orders, locals >>
       ELSE IF ~Cancellable(orders[asset_no][order_id])
       THEN /\ result' = "Err(InvalidOrderStatus)"
            /\ UNCHANGED << pc, sent, orders, locals >>
       ELSE LET order == [orders[asset_no][order_id] EXCEPT !.req = "Canceled",
                                                            !.status = "Canceled",
                                                            !.local_timestamp = now]
            IN  /\ orders' = [orders EXCEPT ![asset_no][order_id] = order]
                /\ IF ~pub_ok
                   THEN /\ result' = "Err(Custom)"
                        /\ UNCHANGED << pc, sent, locals >>
                   ELSE /\ sent' = Publish(asset_no, OrderRequest(instruments[asset_no].symbol, order))
                        /\ IF wait
                           THEN StartElapse(FALSE, Specified(asset_no, order_id))
                           ELSE /\ result' = "Ok(true)"
                                /\ UNCHANGED << pc, locals >>
    /\ UNCHANGED << bot, position, depth, last_trades, last_feed_latency, last_order_latency,
                    open >>

Cancel(asset_no, order_id, wait, pub_ok, now) ==
    /\ pc = "idle"
    /\ call' = "cancel"
    /\ pub_ok => WithinSent
    /\ IF asset_no \notin Assets
       THEN /\ result' = "Err(InstrumentNotFound)"
            /\ UNCHANGED << pc, sent, orders, locals >>
       ELSE IF order_id \notin DOMAIN orders[asset_no]
       THEN /\ result' = "Err(OrderNotFound)"
            /\ UNCHANGED << pc, sent, orders, locals >>
       ELSE IF ~Cancellable(orders[asset_no][order_id])
       THEN /\ result' = "Err(InvalidOrderStatus)"
            /\ UNCHANGED << pc, sent, orders, locals >>
       ELSE LET order == [orders[asset_no][order_id] EXCEPT !.req = "Canceled",
                                                            !.local_timestamp = now]
            IN  /\ orders' = [orders EXCEPT ![asset_no][order_id] = order]
                /\ IF ~pub_ok
                   THEN /\ result' = "Err(Custom)"
                        /\ UNCHANGED << pc, sent, locals >>
                   ELSE /\ sent' = Publish(asset_no, OrderRequest(instruments[asset_no].symbol, order))
                        /\ IF wait
                           THEN StartElapse(FALSE, Specified(asset_no, order_id))
                           ELSE /\ result' = "Ok(true)"
                                /\ UNCHANGED << pc, locals >>
    /\ UNCHANGED << bot, position, depth, last_trades, last_feed_latency, last_order_latency,
                    open >>

\* orders.retain(|_, order| order.active())
Retain(m) == [id \in {i \in DOMAIN m : Active(m[i])} |-> m[id]]

\* asset_no = 0 stands for Option::None.
ClearInactiveOrders(asset_no) ==
    /\ pc = "idle"
    /\ orders' = [a \in Assets |->
                     IF asset_no = 0 \/ asset_no = a THEN Retain(orders[a]) ELSE orders[a]]
    /\ result' = "Ok"
    /\ call' = "clear_inactive_orders"
    /\ UNCHANGED << pc, bot, sent, position, depth, last_trades, last_feed_latency,
                    last_order_latency, locals, open >>

\* clear_last_trades(Some(asset_no)) unwraps get_mut(asset_no).
ClearLastTrades(asset_no) ==
    /\ pc = "idle"
    /\ asset_no = 0 \/ asset_no \in Assets
    /\ last_trades' = [a \in Assets |->
                          IF asset_no = 0 \/ asset_no = a THEN << >> ELSE last_trades[a]]
    /\ result' = "Ok"
    /\ call' = "clear_last_trades"
    /\ UNCHANGED << pc, bot, sent, orders, position, depth, last_feed_latency,
                    last_order_latency, locals, open >>

WaitOrderResponse(asset_no, order_id) ==
    /\ pc = "idle"
    /\ StartElapse(FALSE, Specified(asset_no, order_id))
    /\ call' = "wait_order_response"
    /\ UNCHANGED << bot, sent, slots, open >>

WaitNextFeed(include_order_resp) ==
    /\ pc = "idle"
    /\ StartElapse(TRUE, IF include_order_resp THEN WaitAny ELSE WaitNone)
    /\ call' = "wait_next_feed"
    /\ UNCHANGED << bot, sent, slots, open >>

Elapse ==
    /\ pc = "idle"
    /\ StartElapse(FALSE, WaitNone)
    /\ call' = "elapse"
    /\ UNCHANGED << bot, sent, slots, open >>

(***************************************************************************)
(* Specifications.                                                         *)
(***************************************************************************)
Prices == {3}
Qtys == {2}

\* The order mirror of one instrument under inbound order updates.
InitMirror == Builder({<< Inst("x", "BTC", 0) >>}, {FALSE}, {TRUE})

MirrorEvents == {[type |-> "Order", symbol |-> "BTC", order |-> o] : o \in InboundOrders}

NextMirror ==
    \/ Build(<<"none">>)
    \/ \E id \in OrderIds, px \in Prices, q \in Qtys, now \in WallClock :
          SubmitOrder(1, id, px, q, "Buy", FALSE, FALSE, now)
    \/ ClearInactiveOrders(1)
    \/ Elapse
    \/ Tick
    \/ \E ev \in MirrorEvents, err \in BOOLEAN, now \in WallClock : RecvNormal("x", ev, err, now)
    \/ RecvTimeout

SpecMirror == InitMirror /\ [][NextMirror]_vars

\* The elapse loop over two endpoints.
InitLoop == Builder({<< Inst("x", "BTC", 0), Inst("y", "ETH", 0) >>}, {TRUE}, {TRUE})

\* Which endpoint delivers which event.
LoopDeliveries ==
    {<< "x", [type |-> "Feed", symbol |-> "BTC", event |-> FeedEvent("bid_depth")] >>,
     << "x", [type |-> "Position", symbol |-> "BTC", qty |-> 1] >>,
     << "y", [type |-> "Error", error |-> "ConnectionLost"] >>}
    \cup {<< "x", [type |-> "Order", symbol |-> "BTC", order |-> InboundOrder(id, "New", 1)] >> :
            id \in OrderIds}
    \cup {<< "y", [type |-> "Order", symbol |-> "ETH", order |-> InboundOrder(1, "New", 1)] >>}

NextLoop ==
    \/ Build(<<"none">>)
    \/ \E px \in Prices, q \in Qtys, now \in WallClock :
          SubmitOrder(1, 1, px, q, "Buy", TRUE, TRUE, now)
    \/ \E a \in 1..2 : WaitOrderResponse(a, 1)
    \/ \E b \in BOOLEAN : WaitNextFeed(b)
    \/ Elapse
    \/ Tick
    \/ \E d \in LoopDeliveries, err \in BOOLEAN, now \in WallClock : RecvNormal(d[1], d[2], err, now)
    \/ \E d \in LoopDeliveries, err \in BOOLEAN, now \in WallClock : RecvBatch(d[1], d[2], err, now)
    \/ \E ep \in Connectors : RecvEndOfBatch(ep)
    \/ RecvTimeout
    \/ RecvInterrupted
    \/ RecvError

SpecLoop == InitLoop /\ [][NextLoop]_vars

\* The strategy API on two instruments of different connectors.
InitFacade == Builder({<< Inst("x", "BTC", 0), Inst("y", "ETH", 0) >>}, {FALSE}, {FALSE})

FacadeEvents == {[type |-> "Order", symbol |-> "BTC", order |-> InboundOrder(1, "Filled", 1)]}

NextFacade ==
    \/ Build(<<"none">>)
    \/ \E a \in 1..3, id \in OrderIds, px \in Prices, q \in Qtys, ok \in BOOLEAN, now \in WallClock :
          SubmitOrder(a, id, px, q, "Sell", FALSE, ok, now)
    \/ \E a \in 1..3, id \in OrderIds, ok \in BOOLEAN, now \in WallClock :
          Cancel(a, id, FALSE, ok, now)
    \/ Elapse
    \/ \E ev \in FacadeEvents, now \in WallClock : RecvNormal("x", ev, FALSE, now)
    \/ RecvTimeout

SpecFacade == InitFacade /\ [][NextFacade]_vars

\* Building from every instrument list, then feeding the built bot.
InitBuild == Builder(InstrumentLists, {FALSE}, {TRUE})

BuildEvents ==
    {[type |-> "Feed", symbol |-> sym, event |-> FeedEvent(k)] :
        sym \in {"BTC", "ETH"}, k \in {"bid_depth", "buy_trade", "sell_trade"}}
    \cup {[type |-> "Feed", symbol |-> "XRP", event |-> FeedEvent("buy_trade")],
          [type |-> "Order", symbol |-> "XRP", order |-> InboundOrder(1, "New", 1)],
          [type |-> "Position", symbol |-> "XRP", qty |-> 1]}

NextBuild ==
    \/ \E fail \in BuildFailures : Build(fail)
    \/ WaitNextFeed(TRUE)
    \/ Elapse
    \/ \E a \in 0..2 : ClearLastTrades(a)
    \/ Tick
    \/ \E ep \in Connectors, ev \in BuildEvents, err \in BOOLEAN, now \in WallClock :
          RecvNormal(ep, ev, err, now)
    \/ RecvTimeout

SpecBuild == InitBuild /\ [][NextBuild]_vars

\* Waiting for the response to one order while the connector reports it,
\* with a registered hook that may fail.
InitWait == Builder({<< Inst("x", "BTC", 0) >>}, {FALSE}, {TRUE})

WaitEvents ==
    {[type |-> "Order", symbol |-> "BTC", order |-> InboundOrder(1, st, ts)] :
        st \in {"New", "PartiallyFilled", "Filled"}, ts \in ExchTs}

NextWait ==
    \/ Build(<<"none">>)
    \/ WaitOrderResponse(1, 1)
    \/ Elapse
    \/ \E ev \in WaitEvents, err \in BOOLEAN, now \in WallClock : RecvNormal("x", ev, err, now)
    \/ \E ev \in WaitEvents, err \in BOOLEAN, now \in WallClock : RecvBatch("x", ev, err, now)
    \/ RecvEndOfBatch("x")
    \/ RecvTimeout

SpecWait == InitWait /\ [][NextWait]_vars

\* recv_timeout returns: an event, the end of a batch, Timeout, Interrupted or
\* an error.
Receive ==
    \/ \E d \in LoopDeliveries, err \in BOOLEAN, now \in WallClock : RecvNormal(d[1], d[2], err, now)
    \/ \E d \in LoopDeliveries, err \in BOOLEAN, now \in WallClock : RecvBatch(d[1], d[2], err, now)
    \/ \E ep \in Connectors : RecvEndOfBatch(ep)
    \/ RecvTimeout
    \/ RecvInterrupted
    \/ RecvError

\* The elapse loop with a clock that advances, a transport whose recv_timeout
\* always returns and connectors that close every batch they open.
SpecLoopFair ==
    /\ InitLoop
    /\ [][NextLoop]_vars
    /\ WF_vars(Tick)
    /\ WF_vars(Receive)
    /\ \A ep \in Connectors : WF_vars(RecvEndOfBatch(ep))

(***************************************************************************)
(* Properties.                                                             *)
(***************************************************************************)
\* The terminal statuses of an order.
Terminal == {"Filled", "Canceled", "Expired", "Rejected"}

\* C1: once a mirror entry has a terminal status (Filled, Canceled, Expired
\* or Rejected), no inbound order event changes any field of that entry.
C1_TerminalFrozen ==
    [][pc = "elapse" =>
         \A a \in DOMAIN orders : \A id \in DOMAIN orders[a] :
            orders[a][id].status \in Terminal
            => id \in DOMAIN orders'[a] /\ orders'[a][id] = orders[a][id]]_vars

\* C2: an inbound order update older than the mirror entry of its order_id
\* leaves the entry unchanged, and while an order_id stays in the mirror the
\* exch_timestamp of its entry never decreases.
C2_StaleDropped ==
    [][/\ \A a \in DOMAIN orders : \A u \in InboundOrders :
            /\ u.order_id \in DOMAIN orders[a]
            /\ u.exch_timestamp < orders[a][u.order_id].exch_timestamp
            => ApplyOrder(orders[a], u, FALSE) = orders[a]
       /\ \A a \in DOMAIN orders : \A id \in DOMAIN orders[a] \cap DOMAIN orders'[a] :
            orders'[a][id].exch_timestamp >= orders[a][id].exch_timestamp]_vars

\* An update older than the entry has been received and the entry kept its timestamp.
C2_Witness ==
    /\ pc = "elapse"
    /\ \E a \in DOMAIN orders :
         /\ DOMAIN orders[a] = {1}
         /\ last_order_latency[a] # NoLatency
         /\ last_order_latency[a][2] < orders[a][1].exch_timestamp


\* C3: applying an inbound order update to a mirror that already had the same
\* update applied changes nothing, whether or not the order_id was present
\* before the first application.
C3_Idempotent ==
    \A a \in DOMAIN orders : \A u \in InboundOrders :
        LET once == ApplyOrder(orders[a], u, FALSE)
        IN  /\ ApplyOrder(once, u, FALSE) = once
            /\ ApplyOrder(once, u, TRUE) = once

\* An update has just been merged into an active entry, so that a second
\* delivery of it passes the timestamp and status checks.
C3_Witness ==
    /\ pc = "elapse"
    /\ \E a \in DOMAIN orders : \E u \in InboundOrders :
         /\ u.order_id \in DOMAIN orders[a]
         /\ orders[a][u.order_id].req = "New"
         /\ orders[a][u.order_id].status = "PartiallyFilled"
         /\ u.status = "PartiallyFilled"
         /\ u.exch_timestamp = orders[a][u.order_id].exch_timestamp
         /\ last_order_latency[a] # NoLatency
         /\ last_order_latency[a][2] = u.exch_timestamp
         /\ 2 \notin DOMAIN orders[a]

\* elapse_ hands control back to the strategy with Ok(true) or Ok(false).
Returns == pc = "elapse" /\ pc' = "idle" /\ result' \in {"Ok(true)", "Ok(false)"}

\* An order event that satisfies the wait mode of the running call.
Awaited(ev) ==
    /\ ev.type = "Order"
    /\ ev.symbol \in DOMAIN symbol_to_inst_no
    /\ \/ wait_order_response.kind = "Any"
       \/ /\ wait_order_response.kind = "Specified"
          /\ wait_order_response.asset_no = symbol_to_inst_no[ev.symbol]
          /\ wait_order_response.order_id = ev.order.order_id

\* C4: when an order event satisfying the wait mode arrives as Batch(e), the
\* call does not return on that event, and once the wait is satisfied inside a
\* batch the call returns true exactly when EndOfBatch is received.
C4_ReturnsAtEndOfBatch ==
    [][/\ pc = "elapse" /\ ~receive_wait_resp /\ receive_wait_resp' /\ in_batch'
            => pc' = "elapse"
       /\ pc = "elapse" /\ receive_wait_resp /\ in_batch /\ pc' = "idle" /\ result' = "Ok(true)"
            => recv' = EndOfBatch
       /\ pc = "elapse" /\ receive_wait_resp /\ in_batch /\ open' = {} /\ open # {}
            => pc' = "idle" /\ result' = "Ok(true)"]_vars

\* C5: between a Batch event and the closing EndOfBatch neither the expiry of
\* the duration nor a Timeout of the transport makes the call return.
C5_NoTimeoutInBatch ==
    [][pc = "elapse" /\ in_batch /\ pc' = "idle"
         => /\ recv' # Timeout
            /\ recv'.kind \in {"Normal", "Batch"} => result' # "Ok(true)"]_vars

\* C6: while one endpoint has a batch open, an EndOfBatch or Normal event of
\* another endpoint does not make the call return.
C6_BatchAtomicPerEndpoint ==
    [][Returns /\ in_batch /\ recv'.kind \in {"EndOfBatch", "Normal"} => open' = {}]_vars

\* C7: under Specified{asset_no, order_id} dispatch reports the wait satisfied
\* iff the event is an order event whose symbol resolves to asset_no and whose
\* order_id is the awaited one; the call returns true only on such an event,
\* on a Timeout or after the duration has elapsed.
C7_SpecifiedWait ==
    [][pc = "elapse" /\ wait_order_response.kind = "Specified"
         => /\ \A d \in LoopDeliveries :
                 (ProcessEvent(d[2], wait_order_response, FALSE, 1).res = "true")
                     <=> /\ d[2].type = "Order"
                         /\ d[2].symbol \in DOMAIN symbol_to_inst_no
                         /\ symbol_to_inst_no[d[2].symbol] = wait_order_response.asset_no
                         /\ d[2].order.order_id = wait_order_response.order_id
            /\ ~receive_wait_resp /\ receive_wait_resp'
                 => \E d \in LoopDeliveries, err \in BOOLEAN, now \in WallClock :
                       /\ Awaited(d[2])
                       /\ RecvNormal(d[1], d[2], err, now) \/ RecvBatch(d[1], d[2], err, now)
            /\ pc' = "idle" /\ result' = "Ok(true)"
                 => receive_wait_resp' \/ recv' = Timeout \/ expired]_vars

\* The awaited order response arrived outside a batch and the call returned on it.
C7_Witness ==
    /\ pc = "idle"
    /\ call = "wait_order_response"
    /\ result = "Ok(true)"
    /\ wait_order_response = Specified(1, 1)
    /\ recv.kind = "Normal"
    /\ recv.ev.type = "Order"
    /\ recv.ev.symbol = "BTC"
    /\ recv.ev.order.order_id = 1
    /\ 1 \in DOMAIN orders[2]
    /\ 2 \in DOMAIN orders[1]
    /\ depth[1].bid # << >>

\* A Feed event of one of the bot's instruments.
KnownFeed(ev) == ev.type = "Feed" /\ ev.symbol \in DOMAIN symbol_to_inst_no

\* An Order event of one of the bot's instruments.
KnownOrder(ev) == ev.type = "Order" /\ ev.symbol \in DOMAIN symbol_to_inst_no

\* C8: wait_next_feed returns true at a Normal Feed event of a known symbol
\* received outside a batch; with include_order_resp it also returns on any
\* order event of a known symbol, without it order events do not wake it.
C8_FeedWakes ==
    [][pc = "elapse" /\ call = "wait_next_feed" /\ wait_next_feed /\ ~in_batch
         => \A d \in LoopDeliveries, now \in WallClock :
               RecvNormal(d[1], d[2], FALSE, now)
               => /\ KnownFeed(d[2]) => pc' = "idle" /\ result' = "Ok(true)"
                  /\ KnownOrder(d[2]) /\ wait_order_response = WaitAny
                       => pc' = "idle" /\ result' = "Ok(true)"
                  /\ KnownOrder(d[2]) /\ wait_order_response = WaitNone /\ ~expired
                       => pc' = "elapse"]_vars

\* A user hook or handler is invoked for the event.
InvokesUser(ev) ==
    \/ ev.type = "Error" /\ error_handler
    \/ /\ KnownOrder(ev)
       /\ order_hook
       /\ ev.order.order_id \in DOMAIN orders[symbol_to_inst_no[ev.symbol]]

\* C9: elapse(duration) returns true only on a Timeout of the transport or
\* after the duration has elapsed, false only on Interrupted, and an error
\* only when the transport or a user hook or handler fails; a received event
\* has been dispatched to the slots when the call returns.
C9_ElapseReturns ==
    [][pc = "elapse" /\ call = "elapse"
         => /\ wait_order_response = WaitNone /\ ~wait_next_feed /\ ~receive_wait_resp'
            /\ pc' = "idle" /\ result' = "Ok(true)" => recv' = Timeout \/ expired
            /\ pc' = "idle" /\ result' = "Ok(false)" => recv' = Interrupted
            /\ pc' = "idle" /\ result' \notin {"Ok(true)", "Ok(false)"}
                 => /\ result' = "Err(Custom)"
                    /\ recv' = TransportError
                        \/ (recv'.kind \in {"Normal", "Batch"} /\ InvokesUser(recv'.ev))
            /\ pc' = "idle" /\ recv'.kind \in {"Normal", "Batch"} /\ result' = "Ok(true)"
                 => LET r == ProcessEvent(recv'.ev, wait_order_response, FALSE, 1)
                    IN  /\ orders' = r.orders
                        /\ position' = r.position
                        /\ depth' = r.depth
                        /\ last_trades' = r.last_trades
                        /\ last_feed_latency' = r.last_feed_latency]_vars

\* elapse returned true on a Normal order event, received after the deadline.
C9_Witness ==
    /\ pc = "idle"
    /\ call = "elapse"
    /\ result = "Ok(true)"
    /\ recv.kind = "Normal"
    /\ recv.ev.type = "Order"
    /\ recv.ev.order.order_id \in DOMAIN orders[symbol_to_inst_no[recv.ev.symbol]]

\* The request published last.
LastSent == sent[Len(sent)]

\* C10: after submit_order(asset_no, id, px, qty, .., wait = false) succeeds,
\* orders(asset_no) holds id with status and req New, price_tick =
\* round(px / tick_size), leaves_qty = qty, exec_qty = 0 and exch_timestamp = 0,
\* exactly one order request with that snapshot has been published on the
\* endpoint of the instrument, and no other order of any slot has changed.
C10_SubmitInserts ==
    [][\A a \in 1..3, id \in OrderIds, px \in Prices, q \in Qtys, side \in Sides, now \in WallClock :
          SubmitOrder(a, id, px, q, side, FALSE, TRUE, now) /\ result' = "Ok(true)"
          => /\ a \in Assets
             /\ id \in DOMAIN orders'[a]
             /\ LET o == orders'[a][id]
                IN  /\ o.status = "New" /\ o.req = "New"
                    /\ 2 * instruments[a].tick_size * o.price_tick - 2 * px \in
                           (1 - instruments[a].tick_size)..instruments[a].tick_size
                    /\ o.qty = q /\ o.leaves_qty = q /\ o.exec_qty = 0
                    /\ o.exch_timestamp = 0 /\ o.order_id = id /\ o.side = side
                    /\ sent' = Append(sent, [ep |-> instruments[a].connector_name,
                                             req |-> [type |-> "Order",
                                                      symbol |-> instruments[a].symbol,
                                                      order |-> o]])
             /\ \A b \in Assets : \A i \in DOMAIN orders[b] :
                    i \in DOMAIN orders'[b] /\ orders'[b][i] = orders[b][i]
             /\ \A b \in Assets : DOMAIN orders'[b] = DOMAIN orders[b] \cup (IF b = a THEN {id} ELSE {})]_vars

\* submit_order succeeded on the second instrument while both slots held
\* other orders.
C10_Witness ==
    /\ pc = "idle"
    /\ call = "submit_order"
    /\ result = "Ok(true)"
    /\ Len(sent) > 0
    /\ LastSent.req.type = "Order"
    /\ LastSent.ep = "y"
    /\ LastSent.req.order.order_id = 2
    /\ DOMAIN orders[2] = {1, 2}
    /\ orders[2][2] = LastSent.req.order
    /\ orders[2][2].price_tick = 2
    /\ 1 \in DOMAIN orders[1]
    /\ orders[1][1].status = "Filled"

\* The mirror entry of (a, id), or a marker when there is none.
Entry(m, a, id) == IF a \in DOMAIN m /\ id \in DOMAIN m[a] THEN m[a][id] ELSE [status |-> "absent", req |-> "absent"]

\* C11: a precondition failure of submit_order or cancel returns its error at
\* once, publishes nothing and changes no mirror entry: InstrumentNotFound for
\* an asset index out of range, OrderIdExist for a submit of an id already in
\* the slot, OrderNotFound for a cancel of an unknown id, InvalidOrderStatus
\* for a cancel of an order that is not cancellable.  A call that fails its
\* precondition takes the same step whether or not the transport would accept
\* a request, so the calls are compared with a refusing transport.
C11_PreconditionErrors ==
    [][pc = "idle" /\ call' \in {"submit_order", "cancel"}
         => \A a \in 1..3, id \in OrderIds, now \in WallClock :
              /\ \A px \in Prices, q \in Qtys :
                    (a \notin Assets \/ Entry(orders, a, id).status # "absent")
                        /\ SubmitOrder(a, id, px, q, "Sell", FALSE, FALSE, now)
                    => /\ result' = IF a \notin Assets THEN "Err(InstrumentNotFound)"
                                    ELSE "Err(OrderIdExist)"
                       /\ pc' = "idle" /\ sent' = sent /\ orders' = orders
              /\ Entry(orders, a, id).status \notin {"New", "PartiallyFilled"}
                    /\ Cancel(a, id, FALSE, FALSE, now)
                 => /\ result' = IF a \notin Assets THEN "Err(InstrumentNotFound)"
                                 ELSE IF id \notin DOMAIN orders[a] THEN "Err(OrderNotFound)"
                                 ELSE "Err(InvalidOrderStatus)"
                    /\ pc' = "idle" /\ sent' = sent /\ orders' = orders]_vars

\* cancel of a Filled order was refused; only the submit of that order has
\* been published after the build.
C11_Witness ==
    /\ pc = "idle"
    /\ call = "cancel"
    /\ result = "Err(InvalidOrderStatus)"
    /\ Entry(orders, 1, 1).status = "Filled"
    /\ Entry(orders, 1, 1).req = "New"
    /\ Len(sent) = Len(instruments) + 1
    /\ 2 \notin DOMAIN orders[1]
    /\ orders[2] = << >>

\* C12: a successful cancel(asset_no, order_id, wait = false) sets req of the
\* entry to Canceled and changes nothing else of it but local_timestamp, keeps
\* the entry and every other entry, and publishes exactly one order request,
\* on the instrument's endpoint, whose snapshot is the entry with req =
\* Canceled; the status of an entry changes only when an inbound event is
\* dispatched.
C12_CancelMarksRequest ==
    [][/\ pc = "idle" /\ call' = "cancel" /\ result' = "Ok(true)"
            => \A a \in 1..3, id \in OrderIds, now \in WallClock :
                  Cancel(a, id, FALSE, TRUE, now)
                  => /\ Entry(orders, a, id).status \in {"New", "PartiallyFilled"}
                     /\ Entry(orders', a, id).req = "Canceled"
                     /\ [orders'[a][id] EXCEPT !.req = orders[a][id].req,
                                               !.local_timestamp = orders[a][id].local_timestamp]
                            = orders[a][id]
                     /\ orders'[a][id].status = orders[a][id].status
                     /\ \A b \in Assets :
                           /\ DOMAIN orders'[b] = DOMAIN orders[b]
                           /\ \A i \in DOMAIN orders[b] :
                                 b # a \/ i # id => orders'[b][i] = orders[b][i]
                     /\ sent' = Append(sent, [ep |-> instruments[a].connector_name,
                                              req |-> [type |-> "Order",
                                                       symbol |-> instruments[a].symbol,
                                                       order |-> orders'[a][id]]])
       /\ \A a \in DOMAIN orders : \A id \in DOMAIN orders[a] :
             Entry(orders', a, id).status # orders[a][id].status => pc = "elapse"]_vars

\* cancel succeeded on an order that is still New: the entry is marked and the
\* request published last carries it.
C12_Witness ==
    /\ pc = "idle"
    /\ call = "cancel"
    /\ result = "Ok(true)"
    /\ Entry(orders, 1, 1).status = "New"
    /\ Entry(orders, 1, 1).req = "Canceled"
    /\ Len(sent) = Len(instruments) + 2
    /\ LastSent = [ep |-> "x", req |-> OrderRequest("BTC", orders[1][1])]
    /\ Entry(orders, 2, 2).req = "New"

\* C13: when the publish of submit_order or cancel fails, the call returns
\* the error, nothing is published and the mirror keeps what the call wrote
\* before publishing: the New entry of a failed submit stays in the slot, so
\* the id is taken for a later submit, and the entry of a failed cancel keeps
\* req = Canceled.
C13_NoRollback ==
    [][pc = "idle" /\ call' \in {"submit_order", "cancel"}
         => \A a \in Assets, id \in OrderIds, now \in WallClock :
              /\ \A px \in Prices, q \in Qtys :
                    Entry(orders, a, id).status = "absent"
                        /\ SubmitOrder(a, id, px, q, "Sell", FALSE, FALSE, now)
                    => /\ result' = "Err(Custom)"
                       /\ pc' = "idle" /\ sent' = sent
                       /\ Entry(orders', a, id) =
                              NewOrder(id, px, q, "Sell", instruments[a].tick_size, now)
              /\ Entry(orders, a, id).status \in {"New", "PartiallyFilled"}
                    /\ Cancel(a, id, FALSE, FALSE, now)
                 => /\ result' = "Err(Custom)"
                    /\ pc' = "idle" /\ sent' = sent
                    /\ Entry(orders', a, id).req = "Canceled"
                    /\ Entry(orders', a, id).status = orders[a][id].status]_vars

\* The submit of order 1 failed at the publish, and a second submit of the
\* same id was refused: no order request has been published, yet the slot
\* holds the order.
C13_Witness ==
    /\ pc = "idle"
    /\ call = "submit_order"
    /\ result = "Err(OrderIdExist)"
    /\ Len(sent) = Len(instruments)
    /\ Entry(orders, 1, 1).status = "New"
    /\ Entry(orders, 1, 1).req = "New"
    /\ Entry(orders, 1, 2).status = "absent"
    /\ orders[2] = << >>

\* C14: build() on a list holding the same (connector_name, symbol) pair twice
\* fails with Duplicate, and then no endpoint has been created and no
\* AddInstrument request has been published.
C14_DuplicateCleanFailure ==
    call = "build" /\ FirstDup(instruments) # 0
        => result = "Duplicate" /\ created = << >> /\ sent = << >>

\* The bot has been built.
Built == pc \in {"idle", "elapse"}

\* C15: after a successful build() as many endpoints have been created as the
\* instrument list has distinct connector names, and the endpoint at every
\* asset index is the one created for that instrument's connector_name, so
\* instruments of one connector share one endpoint.
C15_EndpointPerConnector ==
    Built
        => /\ Len(created) = Cardinality({instruments[i].connector_name : i \in Assets})
           /\ {created[k] : k \in DOMAIN created} = {instruments[i].connector_name : i \in Assets}
           /\ DOMAIN pubsub = Assets
           /\ \A i \in Assets :
                 /\ pubsub[i] = instruments[i].connector_name
                 /\ Cardinality({k \in DOMAIN created : created[k] = pubsub[i]}) = 1
           /\ \A i, j \in Assets :
                 instruments[i].connector_name = instruments[j].connector_name
                     => pubsub[i] = pubsub[j]

\* Two instruments of one connector have been built onto a single endpoint.
C15_Witness ==
    /\ pc = "idle"
    /\ call = "build"
    /\ result = "Ok"
    /\ Len(instruments) = 2
    /\ instruments[1].connector_name = instruments[2].connector_name
    /\ created = << "x" >>
    /\ pubsub = << "x", "x" >>

\* The AddInstrument requests published for instrument i on the endpoint of
\* its own connector.
Primed(i) ==
    {k \in DOMAIN sent : sent[k] = [ep |-> instruments[i].connector_name,
                                    req |-> AddInstrument(instruments[i])]}

\* C16: a successful build() has published, for each instrument, exactly one
\* AddInstrument request with its symbol and tick_size, on the endpoint of the
\* instrument's own connector, also when a symbol is listed under two
\* connectors.
C16_AddInstrumentOnOwnEndpoint ==
    Built
        => /\ Cardinality({k \in DOMAIN sent : sent[k].req.type = "AddInstrument"}) = Len(instruments)
           /\ \A i \in Assets : Cardinality(Primed(i)) = 1

\* A Feed, Order or Position event of a symbol the bot has no instrument for.
UnknownSymbol(ev) == ev.type \in {"Feed", "Order", "Position"} /\ ev.symbol \notin DOMAIN symbol_to_inst_no

\* C17: an event of a symbol that is not one of the bot's instruments is
\* absorbed: under every wait mode, and whatever the order hook would return,
\* dispatch yields false and no error and leaves every slot unchanged, and
\* the call returns on such an event only because the duration has elapsed.
C17_UnknownSymbolAbsorbed ==
    [][pc = "elapse"
         => \A ev \in BuildEvents :
              UnknownSymbol(ev)
              => /\ \A mode \in {WaitNone, WaitAny, Specified(1, 1)}, err \in BOOLEAN :
                       ProcessEvent(ev, mode, err, 1) = Untouched("false")
                 /\ \A ep \in Connectors, err \in BOOLEAN, now \in WallClock :
                       RecvNormal(ep, ev, err, now)
                       => /\ slots' = slots
                          /\ ~receive_wait_resp'
                          /\ pc' = "idle" => expired /\ result' = "Ok(true)"
                          /\ ~expired => pc' = "elapse"]_vars

\* An order event of an unknown symbol was the last event of a wait for any
\* order response, which returned on it only because the duration had
\* elapsed; the order is in no slot.
C17_Witness ==
    /\ pc = "idle"
    /\ call = "wait_next_feed"
    /\ wait_order_response = WaitAny
    /\ order_hook
    /\ result = "Ok(true)"
    /\ recv = Normal([type |-> "Order", symbol |-> "XRP", order |-> InboundOrder(1, "New", 1)])
    /\ ~receive_wait_resp
    /\ "XRP" \notin DOMAIN symbol_to_inst_no
    /\ \E a \in Assets : Len(last_trades[a]) = 1 /\ depth[a].bid # << >>
    /\ \A a \in Assets : orders[a] = << >> /\ last_order_latency[a] = NoLatency

\* C18: for an inbound order update whose order_id has a mirror entry the
\* registered hook runs before the drop decision, so a failing hook makes
\* dispatch fail for every such update, stale or not, final entry or not; the
\* call then returns that error with the entry as it was.  For an order_id
\* without an entry the hook is not run: dispatch cannot fail and the update
\* becomes the entry as it is.
C18_HookBeforeDrop ==
    [][pc = "elapse" /\ order_hook
         => /\ \A ev \in WaitEvents :
                 LET a == symbol_to_inst_no[ev.symbol]
                     id == ev.order.order_id
                     failing == ProcessEvent(ev, wait_order_response, TRUE, 1)
                     passing == ProcessEvent(ev, wait_order_response, FALSE, 1)
                 IN  IF id \in DOMAIN orders[a]
                     THEN /\ failing.res = "err"
                          /\ failing.orders = orders
                          /\ passing.res # "err"
                          /\ RecvNormal("x", ev, TRUE, 1) \/ RecvBatch("x", ev, TRUE, 1)
                                => pc' = "idle" /\ result' = "Err(Custom)" /\ orders' = orders
                     ELSE /\ failing = passing
                          /\ failing.res # "err"
                          /\ failing.orders[a] = (id :> ev.order) @@ orders[a]
            /\ pc' = "idle" /\ result' = "Err(Custom)"
                 => /\ orders' = orders
                    /\ recv'.kind \in {"Normal", "Batch"}
                    /\ recv'.ev.order.order_id \in DOMAIN orders[symbol_to_inst_no[recv'.ev.symbol]]]_vars

\* The hook failed on an update older than the entry, which reconciliation
\* would have dropped: the call returned the error.
C18_Witness ==
    /\ pc = "idle"
    /\ call = "elapse"
    /\ result = "Err(Custom)"
    /\ recv.kind = "Normal"
    /\ recv.ev.type = "Order"
    /\ Entry(orders, 1, recv.ev.order.order_id).status = "PartiallyFilled"
    /\ recv.ev.order.exch_timestamp < orders[1][recv.ev.order.order_id].exch_timestamp
    /\ last_order_latency[1][2] = recv.ev.order.exch_timestamp

\* C19: the recent trades of an instrument never hold more events than its
\* trade capacity; with capacity 0 they stay empty, and depth events are never
\* among them.
C19_TradesBounded ==
    Built
        => \A a \in Assets :
              /\ Len(last_trades[a]) <= instruments[a].capacity
              /\ \A k \in DOMAIN last_trades[a] : last_trades[a][k].ev \in {"buy_trade", "sell_trade"}

\* Reconciliation drops the update: its order_id has an entry that is newer
\* than the update or already in a final status.
Dropped(ev) ==
    /\ ev.order.order_id \in DOMAIN orders[symbol_to_inst_no[ev.symbol]]
    /\ LET e == orders[symbol_to_inst_no[ev.symbol]][ev.order.order_id]
       IN  ev.order.exch_timestamp < e.exch_timestamp \/ FinalStatus(e.status)

\* C20: an order event that matches the wait mode satisfies the wait also
\* when reconciliation drops it: received outside a batch the call returns
\* true at once, received inside a batch it returns true at EndOfBatch, and
\* in both cases the mirror is as it was before the event.
C20_DroppedUpdateSatisfiesWait ==
    [][pc = "elapse" /\ call = "wait_order_response"
         => /\ \A ev \in WaitEvents :
                 Awaited(ev) /\ Dropped(ev)
                 => /\ ProcessEvent(ev, wait_order_response, FALSE, 1).res = "true"
                    /\ ProcessEvent(ev, wait_order_response, FALSE, 1).orders = orders
                    /\ RecvNormal("x", ev, FALSE, 1)
                          => pc' = "idle" /\ result' = "Ok(true)" /\ orders' = orders
                    /\ RecvBatch("x", ev, FALSE, 1)
                          => pc' = "elapse" /\ receive_wait_resp' /\ orders' = orders
            /\ receive_wait_resp /\ RecvEndOfBatch("x")
                 => pc' = "idle" /\ result' = "Ok(true)" /\ orders' = orders]_vars

\* wait_order_response returned true on an update older than the entry; the
\* entry still shows the newer report.
C20_Witness ==
    /\ pc = "idle"
    /\ call = "wait_order_response"
    /\ result = "Ok(true)"
    /\ recv.kind = "Normal"
    /\ recv.ev.order.order_id = 1
    /\ recv.ev.order.status = "Filled"
    /\ Entry(orders, 1, 1).status = "PartiallyFilled"
    /\ recv.ev.order.exch_timestamp < orders[1][1].exch_timestamp

\* C21: every call into the elapse loop eventually returns, given that the
\* clock advances, recv_timeout always returns and every opened batch is
\* closed; a stream of Normal events that do not satisfy the wait cannot keep
\* the call from returning once the duration has elapsed.
C21_ElapseTerminates == (pc = "elapse") ~> (pc = "idle")

\* A wait for the response to an order returned true on a Normal event of
\* another order, after the duration had elapsed.
C21_Witness ==
    /\ pc = "idle"
    /\ call = "wait_order_response"
    /\ wait_order_response = Specified(1, 1)
    /\ result = "Ok(true)"
    /\ ~receive_wait_resp
    /\ recv.kind = "Normal"
    /\ recv.ev.type = "Order"
    /\ recv.ev.order.order_id = 2
    /\ open = {}

\* The slot of instrument a.
Slot(a) ==
    << orders[a], position[a], depth[a], last_trades[a], last_feed_latency[a], last_order_latency[a] >>

\* C22: an event received from connector c for symbol s, where (c, s) is one
\* of the bot's instruments, leaves the slot of every other instrument
\* unchanged, also when another connector lists the same symbol.
C22_RoutedToOwnSlot ==
    [][pc = "elapse"
         => \A ep \in Connectors, ev \in BuildEvents, err \in BOOLEAN, now \in WallClock :
              /\ \E a \in Assets : instruments[a].connector_name = ep /\ instruments[a].symbol = ev.symbol
              /\ RecvNormal(ep, ev, err, now)
              => \A a \in Assets :
                    instruments[a].connector_name # ep \/ instruments[a].symbol # ev.symbol
                    => Slot(a)' = Slot(a)]_vars

====
